---- MODULE Spec2Model ----
(***************************************************************************)
(* Contact Center Insights notebook: two-channel transcript fusion         *)
(* (combine_and_format_results), the two structured-output extraction      *)
(* cells, and the Result composition and save cell.                        *)
(*                                                                         *)
(* Three specifications share the definitions below:                       *)
(*   SpecNormalize  applies extract_transcript to one channel's output     *)
(*   SpecFusion     applies combine_and_format_results to two outputs      *)
(*   Spec           runs the notebook's cells in order for one call        *)
(***************************************************************************)
EXTENDS Integers, Sequences, FiniteSets

VARIABLES
    pc,                 \* position of the run: the next statement to execute
    error,              \* "" or the name of the exception that stopped the run
    duration,           \* split_audio_channels: len(audio) in ms
    left_results,       \* transcribe_with_riva(left channel)
    right_results,      \* transcribe_with_riva(right channel)
    utterances,         \* combine_and_format_results(...)
    transcript,         \* Transcript(...)
    response,           \* payload of the structured-completion call in flight
    entities,           \* chain.invoke(...) of the entity cell
    evaluation,         \* chain.invoke(...) of the evaluation cell
    result,             \* Result(...)
    file,               \* results/<AUDIO_FILE>.json
    completed,          \* history: the stages that returned without raising
    results,            \* SpecNormalize: argument of extract_transcript
    speaker_label,      \* SpecNormalize: argument of extract_transcript
    transcript_results  \* SpecNormalize: what extract_transcript returned

vars == <<pc, error, duration, left_results, right_results, utterances,
          transcript, response, entities, evaluation, result, file, completed,
          results, speaker_label, transcript_results>>

----------------------------------------------------------------------------
(* Bounds *)

MaxSegs == 2        \* segments per channel in SpecFusion
MaxAlts == 2        \* alternatives per segment in SpecNormalize
NormSegs == 1       \* segments per channel in SpecNormalize
MaxTime == 1        \* largest word start_time
MaxDuration == 1    \* largest call duration
MaxSpeakerId == 2   \* largest speaker id a completion may carry

(* Program constants *)

max_alternatives == 1   \* RecognitionConfig(max_alternatives=1)
ScoreMin == 1           \* "Score metric value from 1 to 10"
ScoreMax == 10

----------------------------------------------------------------------------
(* Recognition outputs (riva response.results) *)

Times == 0..MaxTime

\* Text is a sequence of one-character strings so that strip() can act on it.
Texts == { <<"a">>, <<" ", "b", " ">> }

\* Only words[0] is ever read, so word lists carry at most one word.
WordLists == { <<>> } \cup { <<[start_time |-> t]>> : t \in Times }

Alternatives == [transcript : Texts, words : WordLists]

TimedAlternatives == { a \in Alternatives : a.words # <<>> }

SeqsUpTo(S, n) == UNION { [1..k -> S] : k \in 0..n }

\* Any output the response type admits.
RecognitionOutputs(segs, alts) ==
    SeqsUpTo([alternatives : SeqsUpTo(Alternatives, alts)], segs)

\* Outputs as the configuration requests them: at most max_alternatives
\* alternatives in a segment, each with word timing.
WellFormedOutputs(segs) ==
    SeqsUpTo([alternatives : SeqsUpTo(TimedAlternatives, max_alternatives)], segs)

----------------------------------------------------------------------------
(* Python / pydantic helpers *)

Ok(v) == [err |-> "", value |-> v]
Raise(e) == [err |-> e, value |-> <<>>]

IsSpace(c) == c = " "

RECURSIVE lstrip(_)
lstrip(s) == IF s # <<>> /\ IsSpace(Head(s)) THEN lstrip(Tail(s)) ELSE s

RECURSIVE rstrip(_)
rstrip(s) ==
    IF s # <<>> /\ IsSpace(s[Len(s)]) THEN rstrip(SubSeq(s, 1, Len(s) - 1)) ELSE s

strip(s) == rstrip(lstrip(s))

\* float(n) of an int: a float with no fractional part (start_time is int32).
float(n) == [whole |-> n, frac |-> 0]

\* pydantic's int field given a float: accepted only without fractional part.
validate_int(f) == IF f.frac = 0 THEN Ok(f.whole) ELSE Raise("ValidationError")

Utterance(time, speaker, spoken_words) ==
    LET t == validate_int(time) IN
    IF t.err # "" THEN t
    ELSE Ok([time |-> t.value, speaker |-> speaker, spoken_words |-> spoken_words])

----------------------------------------------------------------------------
(* extract_transcript *)

extract_first_only(alts, label, acc) ==
    IF alts = <<>> THEN Ok(acc)
    ELSE IF Head(alts).words = <<>> THEN Raise("IndexError")
    ELSE Ok(Append(acc, [transcript |-> Head(alts).transcript,
                         start_time |-> Head(alts).words[1].start_time,
                         speaker    |-> label]))

\* inner loop: for alternative in result.alternatives
RECURSIVE extract_alternatives(_, _, _)
extract_alternatives(alts, label, acc) ==
    IF alts = <<>> THEN Ok(acc)
    ELSE IF Head(alts).words = <<>> THEN Raise("IndexError")
    ELSE extract_alternatives(Tail(alts), label,
             Append(acc, [transcript |-> Head(alts).transcript,
                          start_time |-> Head(alts).words[1].start_time,
                          speaker    |-> label]))

\* outer loop: for result in results
RECURSIVE extract_results(_, _, _)
extract_results(rs, label, acc) ==
    IF rs = <<>> THEN Ok(acc)
    ELSE LET r == extract_alternatives(Head(rs).alternatives, label, acc) IN
         IF r.err # "" THEN r ELSE extract_results(Tail(rs), label, r.value)

extract_transcript(rs, label) == extract_results(rs, label, <<>>)

----------------------------------------------------------------------------
(* combine_and_format_results *)

concat_left_only(left, right) == left

concat(left, right) == left \o right

RECURSIVE insort_before_equal(_, _)
insort_before_equal(sorted, x) ==
    IF sorted = <<>> THEN <<x>>
    ELSE IF x.start_time <= Head(sorted).start_time THEN <<x>> \o sorted
    ELSE <<Head(sorted)>> \o insort_before_equal(Tail(sorted), x)

\* list.sort is stable: an element goes after every element whose key is not
\* greater than its own.
RECURSIVE insort(_, _)
insort(sorted, x) ==
    IF sorted = <<>> THEN <<x>>
    ELSE IF x.start_time < Head(sorted).start_time THEN <<x>> \o sorted
    ELSE <<Head(sorted)>> \o insort(Tail(sorted), x)

RECURSIVE sort_into(_, _)
sort_into(seq, acc) ==
    IF seq = <<>> THEN acc ELSE sort_into(Tail(seq), insort(acc, Head(seq)))

list_unsorted(seq) == seq

list_sort(seq) == sort_into(seq, <<>>)

format_results(combined) ==
    LET utts == [i \in 1..Len(combined) |->
                    Utterance(float(combined[i].start_time),
                              combined[i].speaker,
                              strip(combined[i].transcript))] IN
    IF \E i \in 1..Len(combined) : utts[i].err # ""
    THEN Raise("ValidationError")
    ELSE Ok([i \in 1..Len(combined) |-> utts[i].value])

combine_and_format_results(left, right) ==
    LET l == extract_transcript(left, 0) IN
    IF l.err # "" THEN l
    ELSE LET r == extract_transcript(right, 1) IN
         IF r.err # "" THEN r
         ELSE format_results(list_sort(concat(l.value, r.value)))

----------------------------------------------------------------------------
(* Data model: pydantic classes of the notebook *)

Unset == [kind |-> "unset"]
None == [kind |-> "None"]
NoFile == [kind |-> "absent"]

Transcript(utts, call_duration) ==
    Ok([kind |-> "Transcript", utterances |-> utts, call_duration |-> call_duration])

EntitiesFields ==
    {"agent_name", "customer_name", "agent_speaker", "customer_speaker",
     "reason", "topic", "subtopic"}

BoolMetricFields ==
    {"greeting", "hold", "ticket", "listening", "understanding", "tone",
     "proactivity", "clarity", "resolved", "escalation"}

ScoreMetricFields == {"customer_sentiment"}

StringMetricFields == {"agent_feedback", "escalation_reason"}

EvaluationFields == BoolMetricFields \cup ScoreMetricFields \cup StringMetricFields

\* ScoreMetric: value: int, with a description and no constraint.
ScoreMetric(m) == m.value \in Int

\* BoolMetric: value: int, with a description and no constraint.
BoolMetric(m) == m.value \in Int

StringMetric(m) == TRUE

Metric(f, m) ==
    IF f \in ScoreMetricFields THEN ScoreMetric(m)
    ELSE IF f \in BoolMetricFields THEN BoolMetric(m)
    ELSE StringMetric(m)

\* A field without a default is required; fields the class does not declare
\* are ignored.
Entities(payload) ==
    IF \A f \in EntitiesFields : f \in DOMAIN payload
    THEN Ok([kind |-> "Entities", fields |-> [f \in EntitiesFields |-> payload[f]]])
    ELSE Raise("ValidationError")

Evaluation_defaulting(payload) ==
    Ok([kind |-> "Evaluation",
        fields |-> [f \in EvaluationFields |->
                       IF f \in DOMAIN payload THEN payload[f]
                       ELSE [value |-> 0, justification |-> "default"]]])

Evaluation(payload) ==
    IF /\ \A f \in EvaluationFields : f \in DOMAIN payload
       /\ \A f \in EvaluationFields : Metric(f, payload[f])
    THEN Ok([kind |-> "Evaluation", fields |-> [f \in EvaluationFields |-> payload[f]]])
    ELSE Raise("ValidationError")

Result_unvalidated(t, e, v) ==
    Ok([kind |-> "Result", transcript |-> t, entities |-> e, evaluation |-> v])

\* Each field must be an instance of its class; None is not.
Result(t, e, v) ==
    IF t.kind = "Transcript" /\ e.kind = "Entities" /\ v.kind = "Evaluation"
    THEN Ok([kind |-> "Result", transcript |-> t, entities |-> e, evaluation |-> v])
    ELSE Raise("ValidationError")

model_dump_json(r) ==
    [transcript |-> [utterances |-> r.transcript.utterances,
                     call_duration |-> r.transcript.call_duration],
     entities |-> r.entities.fields,
     evaluation |-> r.evaluation.fields]

----------------------------------------------------------------------------
(* What the two backends may return *)

\* A call with at most one recognized segment per channel.
SingleSegmentOutputs ==
    { <<>> } \cup
    { <<[alternatives |-> as]>> : as \in SeqsUpTo(Alternatives, max_alternatives) }

SpeakerIds == 0..MaxSpeakerId

\* Complete payloads and payloads with one field missing.
FieldSets(F) == {F} \cup { F \ {f} : f \in F }

EntitiesResponses ==
    { [f \in P |-> IF f = "agent_speaker" THEN a
                   ELSE IF f = "customer_speaker" THEN c
                   ELSE "text"] :
        P \in FieldSets(EntitiesFields), a \in SpeakerIds, c \in SpeakerIds }

SentimentValues == {ScoreMin - 1, ScoreMin, ScoreMax, ScoreMax + 1}

EvaluationResponses ==
    { [f \in P |-> IF f \in ScoreMetricFields
                     THEN [value |-> s, justification |-> "why"]
                   ELSE IF f \in BoolMetricFields
                     THEN [value |-> 1, justification |-> "why"]
                   ELSE [value |-> "text", justification |-> "why"]] :
        P \in FieldSets(EvaluationFields), s \in SentimentValues }

Payload(p) == [kind |-> "payload", fields |-> p]

----------------------------------------------------------------------------
(* SpecNormalize: extract_transcript on one channel's output *)

pipeline_vars == <<error, duration, left_results, right_results, utterances,
                   transcript, response, entities, evaluation, result, file,
                   completed>>

normalize_vars == <<results, speaker_label, transcript_results>>

Idle ==
    /\ error = ""
    /\ duration = 0
    /\ left_results = <<>>
    /\ right_results = <<>>
    /\ utterances = <<>>
    /\ transcript = Unset
    /\ response = Unset
    /\ entities = Unset
    /\ evaluation = Unset
    /\ result = Unset
    /\ file = NoFile
    /\ completed = {}

InitNormalize ==
    /\ pc = "extract"
    /\ Idle
    /\ results \in RecognitionOutputs(NormSegs, MaxAlts)
    /\ speaker_label \in {0, 1}
    /\ transcript_results = Ok(<<>>)

ExtractTranscript ==
    /\ pc = "extract"
    /\ pc' = "extracted"
    /\ transcript_results' = extract_transcript(results, speaker_label)
    /\ UNCHANGED <<results, speaker_label>>
    /\ UNCHANGED pipeline_vars

NextNormalize == ExtractTranscript

SpecNormalize == InitNormalize /\ [][NextNormalize]_vars

----------------------------------------------------------------------------
(* The notebook's cells *)

Fail(e) ==
    /\ pc' = "failed"
    /\ error' = e

\* left_channel, right_channel, duration = split_audio_channels(AUDIO_FILE)
SplitAudio ==
    /\ pc = "split"
    /\ \E d \in 0..MaxDuration : duration' = d
    /\ pc' = "transcribe_left"
    /\ UNCHANGED <<error, left_results, right_results, utterances, transcript,
                   response, entities, evaluation, result, file, completed>>
    /\ UNCHANGED normalize_vars

\* left_results = transcribe_with_riva(left_channel.getvalue())
TranscribeLeft ==
    /\ pc = "transcribe_left"
    /\ \/ /\ \E r \in SingleSegmentOutputs : left_results' = r
          /\ pc' = "transcribe_right"
          /\ completed' = completed \cup {"recognize_left"}
          /\ UNCHANGED error
       \/ /\ Fail("BackendUnavailable")
          /\ UNCHANGED <<left_results, completed>>
    /\ UNCHANGED <<duration, right_results, utterances, transcript, response,
                   entities, evaluation, result, file>>
    /\ UNCHANGED normalize_vars

\* right_results = transcribe_with_riva(right_channel.getvalue())
TranscribeRight ==
    /\ pc = "transcribe_right"
    /\ \/ /\ \E r \in SingleSegmentOutputs : right_results' = r
          /\ pc' = "combine"
          /\ completed' = completed \cup {"recognize_right"}
          /\ UNCHANGED error
       \/ /\ Fail("BackendUnavailable")
          /\ UNCHANGED <<right_results, completed>>
    /\ UNCHANGED <<duration, left_results, utterances, transcript, response,
                   entities, evaluation, result, file>>
    /\ UNCHANGED normalize_vars

\* utterances = combine_and_format_results(left_results, right_results)
CombineAndFormat ==
    /\ pc = "combine"
    /\ LET r == combine_and_format_results(left_results, right_results) IN
       IF r.err = ""
       THEN /\ utterances' = r.value
            /\ pc' = "transcript"
            /\ completed' = completed \cup {"fusion"}
            /\ UNCHANGED error
       ELSE /\ Fail(r.err)
            /\ UNCHANGED <<utterances, completed>>
    /\ UNCHANGED <<duration, left_results, right_results, transcript, response,
                   entities, evaluation, result, file>>
    /\ UNCHANGED normalize_vars

\* transcript = Transcript(utterances=utterances, call_duration=duration)
BuildTranscript ==
    /\ pc = "transcript"
    /\ LET t == Transcript(utterances, duration) IN
       IF t.err = ""
       THEN /\ transcript' = t.value
            /\ pc' = "entities"
            /\ UNCHANGED error
       ELSE /\ Fail(t.err)
            /\ UNCHANGED transcript
    /\ UNCHANGED <<duration, left_results, right_results, utterances, response,
                   entities, evaluation, result, file, completed>>
    /\ UNCHANGED normalize_vars

\* entities: Entities = chain.invoke({"transcript": transcript_text})
\* A payload that does not validate either raises or yields None: the
\* structured-output parser is library code, so both outcomes are kept.
ExtractEntities ==
    /\ pc = "entities"
    /\ \/ /\ Fail("BackendUnavailable")
          /\ UNCHANGED <<response, entities, completed>>
       \/ \E p \in EntitiesResponses :
            LET v == Entities(p) IN
            /\ response' = Payload(p)
            /\ IF v.err = ""
               THEN /\ entities' = v.value
                    /\ pc' = "evaluation"
                    /\ completed' = completed \cup {"entities"}
                    /\ UNCHANGED error
               ELSE \/ /\ Fail(v.err)
                       /\ UNCHANGED <<entities, completed>>
                    \/ /\ entities' = None
                       /\ pc' = "evaluation"
                       /\ UNCHANGED <<error, completed>>
    /\ UNCHANGED <<duration, left_results, right_results, utterances, transcript,
                   evaluation, result, file>>
    /\ UNCHANGED normalize_vars

\* evaluation: Evaluation = chain.invoke(params)
EvaluateAgent ==
    /\ pc = "evaluation"
    /\ \/ /\ Fail("BackendUnavailable")
          /\ UNCHANGED <<response, evaluation, completed>>
       \/ \E p \in EvaluationResponses :
            LET v == Evaluation(p) IN
            /\ response' = Payload(p)
            /\ IF v.err = ""
               THEN /\ evaluation' = v.value
                    /\ pc' = "result"
                    /\ completed' = completed \cup {"evaluation"}
                    /\ UNCHANGED error
               ELSE \/ /\ Fail(v.err)
                       /\ UNCHANGED <<evaluation, completed>>
                    \/ /\ evaluation' = None
                       /\ pc' = "result"
                       /\ UNCHANGED <<error, completed>>
    /\ UNCHANGED <<duration, left_results, right_results, utterances, transcript,
                   entities, result, file>>
    /\ UNCHANGED normalize_vars

\* result = Result(transcript=transcript, entities=entities, evaluation=evaluation)
ComposeResult ==
    /\ pc = "result"
    /\ LET r == Result(transcript, entities, evaluation) IN
       IF r.err = ""
       THEN /\ result' = r.value
            /\ pc' = "save"
            /\ completed' = completed \cup {"compose"}
            /\ UNCHANGED error
       ELSE /\ Fail(r.err)
            /\ UNCHANGED <<result, completed>>
    /\ response' = Unset
    /\ UNCHANGED <<duration, left_results, right_results, utterances, transcript,
                   entities, evaluation, file>>
    /\ UNCHANGED normalize_vars

\* with open(f"results/{AUDIO_FILE}.json", "w") as f: f.write(result.model_dump_json(indent=2))
SaveResult ==
    /\ pc = "save"
    /\ file' = [kind |-> "json", content |-> model_dump_json(result)]
    /\ pc' = "done"
    /\ UNCHANGED <<error, duration, left_results, right_results, utterances,
                   transcript, response, entities, evaluation, result, completed>>
    /\ UNCHANGED normalize_vars

NoExtract ==
    /\ results = <<>>
    /\ speaker_label = 0
    /\ transcript_results = Ok(<<>>)

Init ==
    /\ pc = "split"
    /\ Idle
    /\ NoExtract

Next ==
    \/ SplitAudio
    \/ TranscribeLeft
    \/ TranscribeRight
    \/ CombineAndFormat
    \/ BuildTranscript
    \/ ExtractEntities
    \/ EvaluateAgent
    \/ ComposeResult
    \/ SaveResult

Spec == Init /\ [][Next]_vars

----------------------------------------------------------------------------
(* SpecFusion: combine_and_format_results on two channels' outputs *)

InitFusion ==
    /\ pc = "combine"
    /\ error = ""
    /\ duration = 0
    /\ left_results \in WellFormedOutputs(MaxSegs)
    /\ right_results \in WellFormedOutputs(MaxSegs)
    /\ utterances = <<>>
    /\ transcript = Unset
    /\ response = Unset
    /\ entities = Unset
    /\ evaluation = Unset
    /\ result = Unset
    /\ file = NoFile
    /\ completed = {"recognize_left", "recognize_right"}
    /\ NoExtract

NextFusion == CombineAndFormat

SpecFusion == InitFusion /\ [][NextFusion]_vars

----------------------------------------------------------------------------
(* Properties *)

\* The alternatives of an output, in segment order then rank order.
RECURSIVE AllAlternatives(_)
AllAlternatives(rs) ==
    IF rs = <<>> THEN <<>> ELSE Head(rs).alternatives \o AllAlternatives(Tail(rs))

Triple(a, label) ==
    [transcript |-> a.transcript, start_time |-> a.words[1].start_time, speaker |-> label]

\* The utterance an alternative of channel `label` should become.
UtteranceOf(a, label) ==
    [time |-> a.words[1].start_time, speaker |-> label, spoken_words |-> strip(a.transcript)]

Count(seq, x) == Cardinality({ i \in 1..Len(seq) : seq[i] = x })

Fused == pc = "transcript"

\* C1: the utterance list returned by combine_and_format_results is
\* non-decreasing in time: for all positions i < j, utterances[i].time <=
\* utterances[j].time.
C1_TimeNonDecreasing ==
    Fused => \A i, j \in 1..Len(utterances) :
                 i < j => utterances[i].time <= utterances[j].time

\* C1 witness: a fused list of two or more utterances whose left channel held an
\* entry later than an entry of the right channel.
C1_Witness ==
    /\ Fused
    /\ Len(utterances) >= 2
    /\ \E a \in 1..Len(AllAlternatives(left_results)),
          b \in 1..Len(AllAlternatives(right_results)) :
         AllAlternatives(left_results)[a].words[1].start_time
           > AllAlternatives(right_results)[b].words[1].start_time

\* The words of channel `label` that start at time t, in list order.
WordsAt(utts, label, t) ==
    LET sel == SelectSeq(utts, LAMBDA u : u.speaker = label /\ u.time = t) IN
    [i \in 1..Len(sel) |-> sel[i].spoken_words]

ChannelWordsAt(rs, t) ==
    LET sel == SelectSeq(AllAlternatives(rs), LAMBDA a : a.words[1].start_time = t) IN
    [i \in 1..Len(sel) |-> strip(sel[i].transcript)]

\* C2: stable tie-break: among utterances of equal time a left-channel
\* (speaker 0) utterance never follows a right-channel (speaker 1) one, and the
\* utterances of one channel with one start time keep their input order.
C2_StableTieBreak ==
    Fused =>
      /\ \A i, j \in 1..Len(utterances) :
           (i < j /\ utterances[i].time = utterances[j].time)
             => ~(utterances[i].speaker = 1 /\ utterances[j].speaker = 0)
      /\ \A t \in Times :
           /\ WordsAt(utterances, 0, t) = ChannelWordsAt(left_results, t)
           /\ WordsAt(utterances, 1, t) = ChannelWordsAt(right_results, t)

\* C2 witness: a fused list with a tie between the two channels and a tie
\* between two different entries of one channel.
C2_Witness ==
    /\ Fused
    /\ \E i, j \in 1..Len(utterances) :
         /\ i < j
         /\ utterances[i].time = utterances[j].time
         /\ utterances[i].speaker # utterances[j].speaker
    /\ \E i, j \in 1..Len(utterances) :
         /\ i < j
         /\ utterances[i].time = utterances[j].time
         /\ utterances[i].speaker = utterances[j].speaker
         /\ utterances[i].spoken_words # utterances[j].spoken_words

ExpectedUtterances ==
    LET l == AllAlternatives(left_results)
        r == AllAlternatives(right_results) IN
    [i \in 1..Len(l) |-> UtteranceOf(l[i], 0)] \o [i \in 1..Len(r) |-> UtteranceOf(r[i], 1)]

\* C10: the merged utterance list is a permutation of the left entries
\* (speaker 0) followed by the right entries (speaker 1): same length, every
\* utterance as often as in the two channels together.
C10_Permutation ==
    Fused =>
      LET e == ExpectedUtterances IN
      /\ Len(utterances) = Len(AllAlternatives(left_results))
                             + Len(AllAlternatives(right_results))
      /\ Len(utterances) = Len(e)
      /\ \A k \in 1..Len(e) :
           /\ Count(utterances, e[k]) = Count(e, e[k])
           /\ Count(utterances, utterances[k]) = Count(e, utterances[k])

\* C10 witness: a fused list holding the entries of two non-empty channels,
\* one of them with two entries.
C10_Witness ==
    /\ Fused
    /\ Len(AllAlternatives(left_results)) >= 1
    /\ Len(AllAlternatives(right_results)) >= 2
    /\ Len(utterances) >= 3

Extracted == pc = "extracted"

\* C4: if a segment has zero alternatives, or an alternative has zero timed
\* words, normalization fails; the segment is never silently dropped.
C4_MalformedFails ==
    (/\ Extracted
     /\ \/ \E i \in 1..Len(results) : results[i].alternatives = <<>>
        \/ \E k \in 1..Len(AllAlternatives(results)) :
              AllAlternatives(results)[k].words = <<>>)
      => transcript_results.err # ""

Stages == {"recognize_left", "recognize_right", "fusion", "entities", "evaluation", "compose"}

\* C3: the record is written only after both recognitions, the fusion, both
\* extractions and the composition of a complete Result have succeeded; a run
\* in which a stage failed never writes a record.
C3_WriteOnlyAfterAll ==
    /\ result.kind = "Result" =>
         /\ completed = Stages
         /\ result.transcript = transcript
         /\ result.entities = entities /\ entities.kind = "Entities"
         /\ result.evaluation = evaluation /\ evaluation.kind = "Evaluation"
    /\ file # NoFile =>
         /\ completed = Stages
         /\ error = ""
         /\ result.kind = "Result"
         /\ file.content = model_dump_json(result)
    /\ (error # "" \/ entities = None \/ evaluation = None) => file = NoFile

\* C3 witness: a run that wrote its record.
C3_Witness == pc = "done" /\ file # NoFile

\* C6: an Evaluation whose customer_sentiment.value lies outside 1..10 is never
\* accepted and never reaches a Result.
C6_SentimentInRange ==
    /\ evaluation.kind = "Evaluation" =>
         evaluation.fields["customer_sentiment"].value \in ScoreMin..ScoreMax
    /\ result.kind = "Result" =>
         result.evaluation.fields["customer_sentiment"].value \in ScoreMin..ScoreMax

EvaluationPayload ==
    /\ response.kind = "payload"
    /\ DOMAIN response.fields \subseteq EvaluationFields

\* C7: an Evaluation response missing a required field is rejected, no field is
\* filled with a default, and every accepted Evaluation has all thirteen fields.
C7_MissingFieldRejected ==
    /\ evaluation.kind = "Evaluation" => DOMAIN evaluation.fields = EvaluationFields
    /\ (pc = "result" /\ EvaluationPayload) =>
         IF DOMAIN response.fields = EvaluationFields
         THEN evaluation.kind = "Evaluation" /\ evaluation.fields = response.fields
         ELSE evaluation.kind # "Evaluation"
    /\ Cardinality(EvaluationFields) = 13

\* C7 witness: the evaluation cell has run on a response that lacks a field.
C7_Witness ==
    /\ pc = "result"
    /\ EvaluationPayload
    /\ DOMAIN response.fields # EvaluationFields
    /\ evaluation = None

\* C8: every utterance of a constructed Transcript has 0 <= time <= call_duration.
C8_TimeWithinDuration ==
    transcript.kind = "Transcript" =>
      \A i \in 1..Len(transcript.utterances) :
        /\ 0 <= transcript.utterances[i].time
        /\ transcript.utterances[i].time <= transcript.call_duration

\* C9: every accepted Entities, and the Entities of every Result, has
\* agent_speaker # customer_speaker, both in {0, 1}.
C9_SpeakersDistinct ==
    /\ entities.kind = "Entities" =>
         /\ entities.fields["agent_speaker"] # entities.fields["customer_speaker"]
         /\ entities.fields["agent_speaker"] \in {0, 1}
         /\ entities.fields["customer_speaker"] \in {0, 1}
    /\ result.kind = "Result" =>
         /\ result.entities.fields["agent_speaker"] # result.entities.fields["customer_speaker"]
         /\ result.entities.fields["agent_speaker"] \in {0, 1}
         /\ result.entities.fields["customer_speaker"] \in {0, 1}

====
